---- MODULE Spec2Model ----
(***************************************************************************)
(* Model of the lexcura dashboard data layer.                              *)
(*                                                                         *)
(* src/google_sheets_503b.py holds two definitions of Master503BConnector. *)
(* The first (lines 11-346) is modelled by the definitions without suffix  *)
(* or with suffix 1, the second (lines 356-656) by those with suffix 2.    *)
(* src/app.py holds the Dash callbacks that refresh the global `data`.     *)
(*                                                                         *)
(* Numbers: a Python number is a record [k, v].  k = "fin" is a finite     *)
(* value, v its value in hundredths (fixed point); k = "inf" is a float    *)
(* infinity of sign v; k = "nan" is a float NaN.  A raised exception is    *)
(* the record whose k is the exception's class name.                       *)
(* Cells: a sheet cell is a string, modelled as the sequence of its        *)
(* characters, so that parsing is computed and not assumed.                *)
(***************************************************************************)
EXTENDS Integers, Sequences, FiniteSets, TLC

\* ------------------------------------------------------------- bounds
\* how many cells of the base row an external editor may have changed
MaxEdits == 1
\* how many refreshes of the application's data may be started
MaxRefreshStarts == 3

\* ------------------------------------------------------------- numbers
Fin(n) == [k |-> "fin", v |-> n]
Whole(n) == Fin(n * 100)
PInf == [k |-> "inf", v |-> 1]
NInf == [k |-> "inf", v |-> -1]
NaN == [k |-> "nan", v |-> 0]
Exc(name) == [k |-> name, v |-> 0]
NoResult == [k |-> "none", v |-> 0]

ExcNames == {"ValueError", "TypeError", "OverflowError"}
IsExc(x) == DOMAIN x = {"k", "v"} /\ x.k \in ExcNames
IsNumber(x) == DOMAIN x = {"k", "v"} /\ x.k \in {"fin", "inf", "nan"}

\* int(x) of a float: truncation toward zero; OverflowError on an infinity,
\* ValueError on a NaN
Trunc(n) == IF n >= 0 THEN (n \div 100) * 100 ELSE -(((-n) \div 100) * 100)
PyInt(x) ==
    IF x.k = "fin" THEN Fin(Trunc(x.v))
    ELSE IF x.k = "inf" THEN Exc("OverflowError")
    ELSE IF x.k = "nan" THEN Exc("ValueError")
    ELSE x

\* ------------------------------------------------------------- cells
Digits == {"0", "1", "2", "3", "4", "5", "6", "7", "8", "9"}
DigitVal(c) ==
    CASE c = "0" -> 0 [] c = "1" -> 1 [] c = "2" -> 2 [] c = "3" -> 3
      [] c = "4" -> 4 [] c = "5" -> 5 [] c = "6" -> 6 [] c = "7" -> 7
      [] c = "8" -> 8 [] c = "9" -> 9

\* str.replace(',', '')
StripCommas(s) == SelectSeq(s, LAMBDA c : c # ",")

RECURSIVE DigitsVal(_)
DigitsVal(s) ==
    IF s = <<>> THEN 0
    ELSE DigitsVal(SubSeq(s, 1, Len(s) - 1)) * 10 + DigitVal(s[Len(s)])

AllDigits(s) == \A i \in 1..Len(s) : s[i] \in Digits
DotAt(s) == {i \in 1..Len(s) : s[i] = "."}

\* the fraction's first two digits, in hundredths
FracVal(s) ==
    IF Len(s) = 0 THEN 0
    ELSE IF Len(s) = 1 THEN DigitVal(s[1]) * 10
    ELSE DigitVal(s[1]) * 10 + DigitVal(s[2])

\* an unsigned decimal literal: digits, or digits "." digits with at least
\* one digit
Unsigned(s) ==
    IF s = <<>> THEN Exc("ValueError")
    ELSE IF AllDigits(s) THEN Fin(DigitsVal(s) * 100)
    ELSE IF Cardinality(DotAt(s)) = 1
         THEN LET d == CHOOSE i \in DotAt(s) : TRUE
                  ip == SubSeq(s, 1, d - 1)
                  fp == SubSeq(s, d + 1, Len(s))
              IN IF AllDigits(ip) /\ AllDigits(fp) /\ Len(ip) + Len(fp) > 0
                 THEN Fin(DigitsVal(ip) * 100 + FracVal(fp))
                 ELSE Exc("ValueError")
    ELSE Exc("ValueError")

Negate(x) ==
    IF x.k = "fin" THEN Fin(-x.v)
    ELSE IF x.k = "inf" THEN [k |-> "inf", v |-> -x.v]
    ELSE x

\* float(s) of a string
ParseFloat(s) ==
    LET signed == s # <<>> /\ s[1] \in {"-", "+"}
        body == IF signed THEN Tail(s) ELSE s
        mag == IF body = <<"i", "n", "f">> THEN PInf
               ELSE IF body = <<"n", "a", "n">> THEN NaN
               ELSE Unsigned(body)
    IN IF signed /\ s[1] = "-" THEN Negate(mag) ELSE mag

\* ------------------------------------------------------------- the sheet
\* H2:AD2 is 23 columns
RowLen == 23

BaseRow ==
    << <<"1","4","7">>, <<"1","3","2">>, <<"1","5">>, <<"9","6",".","3">>,
       <<"2","0">>, <<"6","0","0">>, <<"9","8",".","2">>, <<"1","2","4","7">>,
       <<"2","3">>, <<"1","0","0",".","0">>, <<"0",".","0","2">>, <<"7",".","1">>,
       <<"1","2">>, <<"1","0","2",".","1">>, <<"8">>, <<"1">>, <<"3">>, <<"2">>,
       <<"9","4",".","7">>, <<"1">>, <<"1","5","6">>, <<"1","2">>, <<"3">> >>

\* the cells an editor may type: empty, text, an integer, a number with a
\* thousands separator, a decimal, "inf", "nan"
EditCells ==
    { <<>>, <<"a","b","c">>, <<"1","5">>, <<"1",",","2","3","4">>,
      <<"9","6",".","3">>, <<"i","n","f">>, <<"n","a","n">> }

\* the two rows of the documented scenarios, shorter than the range
ScenarioRowA == << <<"1","4","7">>, <<"1","3","2">>, <<"1","5">>, <<"9","6",".","3">> >>
ScenarioRowB == << <<>>, <<"a","b","c">>, <<"1","5">> >>
\* a row of only empty and non-numeric cells
JunkRow == << <<>>, <<"a","b","c">>, <<>>, <<"n","/","a">> >>
StartRows == {BaseRow, ScenarioRowA, ScenarioRowB, JunkRow}

ReplaceCell(r, i, c) == [r EXCEPT ![i + 1] = c]

\* ------------------------------------------------------------- first connector
\* _safe_int(row_data, index)
SafeInt(row_data, index) ==
    IF index < Len(row_data) /\ row_data[index + 1] # <<>>
    THEN LET r == PyInt(ParseFloat(StripCommas(row_data[index + 1])))
         IN IF r.k \in {"ValueError", "TypeError"} THEN Whole(0) ELSE r
    ELSE Whole(0)

\* _safe_float(row_data, index)
SafeFloat(row_data, index) ==
    IF index < Len(row_data) /\ row_data[index + 1] # <<>>
    THEN LET r == ParseFloat(StripCommas(row_data[index + 1]))
         IN IF r.k \in {"ValueError", "TypeError"} THEN Fin(0) ELSE r
    ELSE Fin(0)

\* the column layout of _map_columns_to_metrics: group, field, type, index
Schema1 ==
    { [g |-> "production", f |-> "total_batches", t |-> "int", idx |-> 0],
      [g |-> "production", f |-> "completed_batches", t |-> "int", idx |-> 1],
      [g |-> "production", f |-> "pending_batches", t |-> "int", idx |-> 2],
      [g |-> "production", f |-> "average_yield", t |-> "float", idx |-> 3],
      [g |-> "production", f |-> "daily_target", t |-> "int", idx |-> 4],
      [g |-> "production", f |-> "monthly_production", t |-> "int", idx |-> 5],
      [g |-> "quality", f |-> "pass_rate", t |-> "float", idx |-> 6],
      [g |-> "quality", f |-> "total_tests", t |-> "int", idx |-> 7],
      [g |-> "quality", f |-> "failed_tests", t |-> "int", idx |-> 8],
      [g |-> "quality", f |-> "sterility_results", t |-> "float", idx |-> 9],
      [g |-> "quality", f |-> "endotoxin_level", t |-> "float", idx |-> 10],
      [g |-> "quality", f |-> "ph_measurements", t |-> "float", idx |-> 11],
      [g |-> "quality", f |-> "particulate_count", t |-> "int", idx |-> 12],
      [g |-> "quality", f |-> "potency_average", t |-> "float", idx |-> 13],
      [g |-> "compliance", f |-> "total_deviations", t |-> "int", idx |-> 14],
      [g |-> "compliance", f |-> "critical_deviations", t |-> "int", idx |-> 15],
      [g |-> "compliance", f |-> "capa_open", t |-> "int", idx |-> 16],
      [g |-> "compliance", f |-> "audit_findings", t |-> "int", idx |-> 17],
      [g |-> "compliance", f |-> "training_compliance", t |-> "float", idx |-> 18],
      [g |-> "compliance", f |-> "environmental_excursions", t |-> "int", idx |-> 19],
      [g |-> "inventory", f |-> "total_sku", t |-> "int", idx |-> 20],
      [g |-> "inventory", f |-> "low_stock_items", t |-> "int", idx |-> 21],
      [g |-> "inventory", f |-> "expired_materials", t |-> "int", idx |-> 22] }

Groups1 == {s.g : s \in Schema1}
Fields1(g) == {s.f : s \in {x \in Schema1 : x.g = g}}
Field1(g, f) == CHOOSE s \in Schema1 : s.g = g /\ s.f = f

\* a fallback structure that holds only the first field
FallbackStructureFirstFieldOnly == [production |-> [total_batches |-> Whole(147)]]

\* _get_fallback_structure()
FallbackStructure ==
    [production |->
        [total_batches |-> Whole(147), completed_batches |-> Whole(132),
         pending_batches |-> Whole(15), average_yield |-> Fin(9630),
         daily_target |-> Whole(20), monthly_production |-> Whole(600)],
     quality |->
        [pass_rate |-> Fin(9820), total_tests |-> Whole(1247),
         failed_tests |-> Whole(23), sterility_results |-> Whole(100),
         endotoxin_level |-> Fin(2), ph_measurements |-> Fin(710),
         particulate_count |-> Whole(12), potency_average |-> Fin(10210)],
     compliance |->
        [total_deviations |-> Whole(8), critical_deviations |-> Whole(1),
         capa_open |-> Whole(3), audit_findings |-> Whole(2),
         training_compliance |-> Fin(9470), environmental_excursions |-> Whole(1)],
     inventory |->
        [total_sku |-> Whole(156), low_stock_items |-> Whole(12),
         expired_materials |-> Whole(3)]]

\* the dict literal of _map_columns_to_metrics, each entry evaluated
MappedFields1(row_data) ==
    [g \in Groups1 |->
        [f \in Fields1(g) |->
            IF Field1(g, f).t = "int"
            THEN SafeInt(row_data, Field1(g, f).idx)
            ELSE SafeFloat(row_data, Field1(g, f).idx)]]

RaisedIn1(m) == {s \in Schema1 : IsExc(m[s.g][s.f])}

\* the same body without its `except Exception` handler
MapColumnsNoHandler(row_data) ==
    LET m == MappedFields1(row_data)
    IN IF RaisedIn1(m) # {}
       THEN LET s == CHOOSE x \in RaisedIn1(m) :
                        \A y \in RaisedIn1(m) : x.idx <= y.idx
            IN m[s.g][s.f]
       ELSE m

\* _map_columns_to_metrics(row_data): an exception raised while the dict is
\* built is caught and the fallback structure is returned
MapColumnsToMetrics(row_data) ==
    LET m == MappedFields1(row_data)
    IN IF RaisedIn1(m) # {} THEN FallbackStructure ELSE m

\* ------------------------------------------------------------- second connector
\* _safe_float(row_data, index, default): no separator is stripped
SafeFloat2(row_data, index, default) ==
    IF index < Len(row_data) /\ row_data[index + 1] # <<>>
    THEN LET r == ParseFloat(row_data[index + 1])
         IN IF r.k \in {"ValueError", "TypeError"} THEN default ELSE r
    ELSE default

\* the column layout of get_master_sheet_data: group, field, index, default
Schema2 ==
    { [g |-> "production_metrics", f |-> "total_batches", idx |-> 0, d |-> Whole(0)],
      [g |-> "production_metrics", f |-> "completed_batches", idx |-> 1, d |-> Whole(0)],
      [g |-> "production_metrics", f |-> "pending_batches", idx |-> 2, d |-> Whole(0)],
      [g |-> "production_metrics", f |-> "average_yield", idx |-> 3, d |-> Fin(9500)],
      [g |-> "production_metrics", f |-> "daily_production", idx |-> 4, d |-> Whole(20)],
      [g |-> "production_metrics", f |-> "monthly_target", idx |-> 5, d |-> Whole(600)],
      [g |-> "quality_metrics", f |-> "pass_rate", idx |-> 6, d |-> Fin(9800)],
      [g |-> "quality_metrics", f |-> "total_tests", idx |-> 7, d |-> Whole(150)],
      [g |-> "quality_metrics", f |-> "pending_tests", idx |-> 8, d |-> Whole(5)],
      [g |-> "quality_metrics", f |-> "sterility_pass", idx |-> 9, d |-> Whole(100)],
      [g |-> "quality_metrics", f |-> "endotoxin_level", idx |-> 10, d |-> Fin(2)],
      [g |-> "quality_metrics", f |-> "ph_average", idx |-> 11, d |-> Fin(710)],
      [g |-> "quality_metrics", f |-> "particulate_count", idx |-> 12, d |-> Whole(12)],
      [g |-> "quality_metrics", f |-> "potency_average", idx |-> 13, d |-> Fin(10210)],
      [g |-> "compliance_metrics", f |-> "deviation_count", idx |-> 14, d |-> Whole(3)],
      [g |-> "compliance_metrics", f |-> "critical_deviations", idx |-> 15, d |-> Whole(1)],
      [g |-> "compliance_metrics", f |-> "environmental_alerts", idx |-> 16, d |-> Whole(1)],
      [g |-> "compliance_metrics", f |-> "training_compliance", idx |-> 17, d |-> Fin(9450)],
      [g |-> "compliance_metrics", f |-> "audit_score", idx |-> 18, d |-> Fin(9730)],
      [g |-> "compliance_metrics", f |-> "capa_open", idx |-> 19, d |-> Whole(2)],
      [g |-> "inventory_metrics", f |-> "total_items", idx |-> 20, d |-> Whole(156)],
      [g |-> "inventory_metrics", f |-> "low_stock_alerts", idx |-> 21, d |-> Whole(12)],
      [g |-> "inventory_metrics", f |-> "expired_items", idx |-> 22, d |-> Whole(3)],
      [g |-> "inventory_metrics", f |-> "critical_supplies", idx |-> 23, d |-> Whole(4)],
      [g |-> "inventory_metrics", f |-> "raw_material_value", idx |-> 24, d |-> Whole(125000)],
      [g |-> "environmental_data", f |-> "iso5_particles", idx |-> 25, d |-> Whole(145)],
      [g |-> "environmental_data", f |-> "iso7_particles", idx |-> 26, d |-> Whole(2840)],
      [g |-> "environmental_data", f |-> "iso8_particles", idx |-> 27, d |-> Whole(89500)],
      [g |-> "environmental_data", f |-> "temperature_avg", idx |-> 28, d |-> Fin(2120)],
      [g |-> "environmental_data", f |-> "humidity_avg", idx |-> 29, d |-> Whole(45)] }

Groups2 == {s.g : s \in Schema2}
Fields2(g) == {s.f : s \in {x \in Schema2 : x.g = g}}
Field2(g, f) == CHOOSE s \in Schema2 : s.g = g /\ s.f = f

\* parsed_data of get_master_sheet_data
ParsedData2(row_data) ==
    [g \in Groups2 |->
        [f \in Fields2(g) |->
            SafeFloat2(row_data, Field2(g, f).idx, Field2(g, f).d)]]

\* ------------------------------------------------------------- float arithmetic
\* a < b; every comparison with a NaN is false
LtNum(a, b) ==
    IF a.k = "nan" \/ b.k = "nan" THEN FALSE
    ELSE IF a.k = "inf" THEN a.v = -1 /\ ~(b.k = "inf" /\ b.v = -1)
    ELSE IF b.k = "inf" THEN b.v = 1
    ELSE a.v < b.v
GtNum(a, b) == LtNum(b, a)
EqNum(a, b) == a.k # "nan" /\ a = b
LeNum(a, b) == LtNum(a, b) \/ EqNum(a, b)
GeNum(a, b) == LeNum(b, a)

\* max(a, b) and min(a, b): the first argument is kept unless the second
\* compares strictly beyond it
PyMax(a, b) == IF GtNum(b, a) THEN b ELSE a
PyMin(a, b) == IF LtNum(b, a) THEN b ELSE a

AddNum(a, b) ==
    IF a.k = "nan" \/ b.k = "nan" THEN NaN
    ELSE IF a.k = "inf" /\ b.k = "inf" THEN (IF a.v = b.v THEN a ELSE NaN)
    ELSE IF a.k = "inf" THEN a
    ELSE IF b.k = "inf" THEN b
    ELSE Fin(a.v + b.v)
SubNum(a, b) == AddNum(a, Negate(b))

Sign(n) == IF n > 0 THEN 1 ELSE IF n < 0 THEN -1 ELSE 0
SignOf(x) == IF x.k = "inf" THEN x.v ELSE Sign(x.v)
MulNum(a, b) ==
    IF a.k = "nan" \/ b.k = "nan" THEN NaN
    ELSE IF a.k = "inf" \/ b.k = "inf"
         THEN (IF SignOf(a) * SignOf(b) = 0 THEN NaN
               ELSE [k |-> "inf", v |-> SignOf(a) * SignOf(b)])
    ELSE Fin((a.v * b.v) \div 100)

\* x / n for a positive integer n
DivNum(x, n) == IF x.k = "fin" THEN Fin(x.v \div n) ELSE x

\* x // n of two ints, n positive
FloorDiv(x, n) == Whole((x.v \div 100) \div n)

\* ------------------------------------------------------------- the generator
\* The process-wide generator of the random module.  After random.seed(42)
\* its outputs are a fixed sequence; the model takes that sequence to be
\* `tape`, repeated with period Period, each output a value of random() in
\* hundredths.  A generator state is the position on the tape.
Period == 3
DrawVals == {0, 50, 99}
AllTapes == [0..(Period - 1) -> DrawVals]

\* the call site of random.seed(42) with the seeding left out
NoSeed(g) == g
\* random.seed(42): the state it leaves
Seed42(g) == 0

\* the n-th value of random() from state g on tape t, and the state after n draws
Draw(t, g, n) == t[(g + n) % Period]
After(g, n) == (g + n) % Period

\* random.uniform(a, b) = a + (b - a) * random(), a and b in hundredths
Uniform(a, b, d) == Fin(a + ((b - a) * d) \div 100)

DayName(i) ==
    IF i < 6 THEN <<"Day -6", "Day -5", "Day -4", "Day -3", "Day -2", "Day -1">>[i + 1]
    ELSE "Today"

\* ------------------------------------------------------------- first connector: dashboard
\* range(7) of the trend loops
Days == 7

None == [k |-> "None", v |-> 0]
Kpi(value, change, status) == [value |-> value, change |-> change, status |-> status]

\* _generate_production_trend(raw_data); t is the tape, g the generator state
\* at the call
GenerateProductionTrend(t, g, raw_data) ==
    LET s == Seed42(g)
        base_daily == PyMax(Whole(1), FloorDiv(raw_data["production"]["total_batches"], 30))
        base_yield == raw_data["production"]["average_yield"]
    IN [i \in 1..Days |->
          LET daily_variation == Uniform(70, 130, Draw(t, s, 2 * (i - 1)))
              yield_variation == Uniform(-300, 300, Draw(t, s, 2 * (i - 1) + 1))
          IN [day |-> DayName(i - 1),
              batches |-> PyMax(Whole(1), PyInt(MulNum(base_daily, daily_variation))),
              yield |-> PyMax(Whole(85), PyMin(Whole(100), AddNum(base_yield, yield_variation)))]]

Param(name, value) == [parameter |-> name, value |-> value]

\* _generate_quality_radar_data(raw_data)
GenerateQualityRadarData(raw_data) ==
    << Param("Sterility Assurance",
             PyMin(Whole(100), raw_data["quality"]["sterility_results"])),
       Param("Endotoxin Control",
             PyMax(Whole(0), SubNum(Whole(100),
                                    MulNum(raw_data["quality"]["endotoxin_level"], Whole(50))))),
       Param("pH Compliance", Whole(95)),
       Param("Particulate Control",
             PyMax(Whole(0), SubNum(Whole(100),
                                    DivNum(raw_data["quality"]["particulate_count"], 100)))),
       Param("Potency Assurance",
             PyMin(Whole(105), raw_data["quality"]["potency_average"])) >>

Zone(zone, particles, status) == [zone |-> zone, particles |-> particles, status |-> status]

\* _generate_environmental_data(raw_data) of the first connector
GenerateEnvironmentalData ==
    << Zone("ISO 5", Whole(145), "Compliant"),
       Zone("ISO 7", Whole(2840), "Compliant"),
       Zone("ISO 8", Whole(89500), "Alert") >>

\* the loop of _generate_deviation_trend from day i on
RECURSIVE DeviationDays(_, _, _, _, _)
DeviationDays(t, s, total_devs, i, remaining_devs) ==
    IF i = Days - 1 THEN <<remaining_devs>>
    ELSE LET u == Uniform(0, DivNum(total_devs, 3).v, Draw(t, s, i))
             daily_devs == PyMin(remaining_devs, PyMax(Whole(0), PyInt(u)))
         IN <<daily_devs>> \o
            DeviationDays(t, s, total_devs, i + 1, SubNum(remaining_devs, daily_devs))

\* _generate_deviation_trend(raw_data)
GenerateDeviationTrend(t, g, raw_data) ==
    LET s == Seed42(g)
        total_devs == raw_data["compliance"]["total_deviations"]
    IN [trend |-> DeviationDays(t, s, total_devs, 0, total_devs),
        total |-> total_devs,
        critical |-> raw_data["compliance"]["critical_deviations"]]

Breakdown(good, low, critical) ==
    ("Good" :> good) @@ ("Low Stock" :> low) @@ ("Critical" :> critical)

\* _generate_inventory_breakdown(raw_data)
GenerateInventoryBreakdown(raw_data) ==
    LET total_items == raw_data["inventory"]["total_sku"]
        low_stock == raw_data["inventory"]["low_stock_items"]
        expired == raw_data["inventory"]["expired_materials"]
        good_items == PyMax(Whole(0), SubNum(SubNum(total_items, low_stock), expired))
    IN [status_breakdown |-> Breakdown(good_items, low_stock, expired)]

\* the status classifications of _format_dashboard_data
\* the comparison of quality_status turned around
QualityStatusFlipped(pass_rate) ==
    IF LeNum(pass_rate, Whole(95)) THEN "good" ELSE "warning"
QualityStatus(pass_rate) ==
    IF GeNum(pass_rate, Whole(95)) THEN "good" ELSE "warning"
\* deviation_status with a word outside the three statuses
DeviationStatusAlert(total_deviations) ==
    IF LeNum(total_deviations, Whole(2)) THEN "good" ELSE "alert"
DeviationStatus(total_deviations) ==
    IF LeNum(total_deviations, Whole(2)) THEN "good" ELSE "critical"
InventoryStatus(low_stock_items) ==
    IF GtNum(low_stock_items, Whole(10)) THEN "warning" ELSE "good"
\* the status of the compliance_score KPI
ComplianceStatus(total_deviations) ==
    IF GtNum(total_deviations, Whole(3)) THEN "warning" ELSE "good"
\* the status of active_deviations in _format_for_dashboard
DeviationStatus2(deviation_count) ==
    IF GtNum(deviation_count, Whole(5)) THEN "critical" ELSE "warning"
\* risk_level of create_risk_gauge
RiskLevel(risk_score) ==
    IF LeNum(risk_score, Whole(25)) THEN "Minimal"
    ELSE IF LeNum(risk_score, Whole(50)) THEN "Low"
    ELSE IF LeNum(risk_score, Whole(75)) THEN "Moderate"
    ELSE "High"

\* _format_dashboard_data(raw_data)
FormatDashboardData(t, g, raw_data) ==
    LET pass_rate == raw_data["quality"]["pass_rate"]
        total_deviations == raw_data["compliance"]["total_deviations"]
        low_stock_items == raw_data["inventory"]["low_stock_items"]
        quality_status == QualityStatus(pass_rate)
        deviation_status == DeviationStatus(total_deviations)
        inventory_status == InventoryStatus(low_stock_items)
    IN [kpis |->
          [total_batches |-> Kpi(raw_data["production"]["total_batches"], Fin(830), "good"),
           quality_pass_rate |-> Kpi(pass_rate, Fin(210), quality_status),
           compliance_score |->
              Kpi(SubNum(Whole(100), MulNum(total_deviations, Whole(2))), Fin(-120),
                  ComplianceStatus(total_deviations)),
           active_deviations |-> Kpi(total_deviations, Fin(-2500), deviation_status),
           inventory_alerts |->
              Kpi(AddNum(low_stock_items, raw_data["inventory"]["expired_materials"]),
                  Fin(1520), inventory_status)],
        charts |->
          [production_trend |-> GenerateProductionTrend(t, g, raw_data),
           quality_parameters |-> GenerateQualityRadarData(raw_data),
           environmental_zones |-> GenerateEnvironmentalData,
           deviation_analysis |-> GenerateDeviationTrend(t, g, raw_data),
           inventory_status |-> GenerateInventoryBreakdown(raw_data)]]

Day(day, batches, yield) == [day |-> day, batches |-> Whole(batches), yield |-> Fin(yield)]
FallbackProductionTrend ==
    << Day("Day -6", 18, 9610), Day("Day -5", 22, 9720), Day("Day -4", 19, 9580),
       Day("Day -3", 25, 9810), Day("Day -2", 21, 9670), Day("Day -1", 17, 9490),
       Day("Today", 23, 9750) >>
FallbackDeviationTrend ==
    <<Whole(2), Whole(1), Whole(3), Whole(0), Whole(1), Whole(0), Whole(1)>>

\* _get_fallback_dashboard_data()
GetFallbackDashboardData ==
    [kpis |->
       [total_batches |-> Kpi(Whole(147), Fin(830), "good"),
        quality_pass_rate |-> Kpi(Fin(9820), Fin(210), "good"),
        compliance_score |-> Kpi(Fin(9430), Fin(-120), "warning"),
        active_deviations |-> Kpi(Whole(8), Fin(-2500), "warning"),
        inventory_alerts |-> Kpi(Whole(15), Fin(1520), "warning")],
     charts |->
       [production_trend |-> FallbackProductionTrend,
        quality_parameters |->
           << Param("Sterility Assurance", Whole(100)), Param("Endotoxin Control", Whole(99)),
              Param("pH Compliance", Whole(95)), Param("Particulate Control", Whole(88)),
              Param("Potency Assurance", Whole(102)) >>,
        environmental_zones |-> GenerateEnvironmentalData,
        deviation_analysis |->
           [trend |-> FallbackDeviationTrend, total |-> Whole(8), critical |-> Whole(1)],
        inventory_status |->
           [status_breakdown |-> Breakdown(Whole(141), Whole(12), Whole(3))]]]

\* One answer of the Sheets API to worksheet.get: the request fails
\* (net = "error") or returns `values`, a list of rows (empty for an empty range)
Answer(net, values) == [net |-> net, values |-> values]

\* get_master_data() without its `if not self.client` test
GetMasterDataNoClientTest(client, answer) ==
    IF answer.net = "error" THEN None
    ELSE IF answer.values = <<>> THEN None
    ELSE MapColumnsToMetrics(answer.values[1])

\* get_master_data(): None without a client, on an exception of the request
\* and on an empty range; the mapped row otherwise
GetMasterData(client, answer) ==
    IF client = "none" THEN None
    ELSE IF answer.net = "error" THEN None
    ELSE IF answer.values = <<>> THEN None
    ELSE MapColumnsToMetrics(answer.values[1])

\* get_dashboard_data() taking its else branch whatever was fetched
GetDashboardDataElseOnly(t, g, client, answer) == GetFallbackDashboardData

\* get_dashboard_data() of the first connector
GetDashboardData(t, g, client, answer) ==
    LET raw_data == GetMasterData(client, answer)
    IN IF raw_data # None THEN FormatDashboardData(t, g, raw_data)
       ELSE GetFallbackDashboardData

\* ------------------------------------------------------------- second connector: dashboard
\* the first exception among the values of a sequence, None when there is none
FirstExc(xs) ==
    IF \E i \in 1..Len(xs) : IsExc(xs[i])
    THEN xs[CHOOSE i \in 1..Len(xs) :
                /\ IsExc(xs[i])
                /\ \A j \in 1..(i - 1) : ~IsExc(xs[j])]
    ELSE None

\* the int(...) of each iteration of _generate_production_trend of the
\* second connector: it raises when daily_production is an infinity or a NaN
ProductionBatches2(t, g, raw_data) ==
    LET base_daily == raw_data["production_metrics"]["daily_production"]
        s == Seed42(g)
    IN [i \in 1..Days |->
          PyInt(MulNum(base_daily, Fin(80 + (Draw(t, s, 2 * (i - 1)) * 40) \div 100)))]

\* _generate_production_trend(raw_data) of the second connector
GenerateProductionTrend2(t, g, raw_data) ==
    LET s == Seed42(g)
        batches == ProductionBatches2(t, g, raw_data)
    IN IF FirstExc(batches) # None THEN FirstExc(batches)
       ELSE [i \in 1..Days |->
               LET yield_pct == AddNum(raw_data["production_metrics"]["average_yield"],
                                       Uniform(-300, 300, Draw(t, s, 2 * (i - 1) + 1)))
               IN [day |-> DayName(i - 1),
                   batches |-> batches[i],
                   yield |-> PyMax(Whole(85), PyMin(Whole(100), yield_pct))]]

\* _generate_quality_params(raw_data)
GenerateQualityParams2(raw_data) ==
    << Param("Sterility", raw_data["quality_metrics"]["sterility_pass"]),
       Param("Endotoxin",
             SubNum(Whole(100), MulNum(raw_data["quality_metrics"]["endotoxin_level"], Whole(50)))),
       Param("pH Balance", Whole(95)),
       Param("Particulates", Whole(88)),
       Param("Potency", raw_data["quality_metrics"]["potency_average"]) >>

Zone2(zone, particles, limit, temperature, humidity) ==
    [zone |-> zone,
     particles |-> particles,
     status |-> IF LtNum(particles, Whole(limit)) THEN "Compliant" ELSE "Alert",
     temperature |-> temperature,
     humidity |-> humidity]

\* _generate_environmental_data(raw_data) of the second connector
GenerateEnvironmentalData2(raw_data) ==
    LET e == raw_data["environmental_data"]
    IN << Zone2("ISO 5", e["iso5_particles"], 3520, e["temperature_avg"], e["humidity_avg"]),
          Zone2("ISO 7", e["iso7_particles"], 352000, e["temperature_avg"], e["humidity_avg"]),
          Zone2("ISO 8", e["iso8_particles"], 3520000, e["temperature_avg"], e["humidity_avg"]) >>

\* the daily_dev of each iteration of _generate_deviation_data: int()
\* raises when deviation_count is an infinity or a NaN
DeviationDays2(t, g, raw_data) ==
    LET total_deviations == raw_data["compliance_metrics"]["deviation_count"]
        s == Seed42(g)
    IN [i \in 1..Days |->
          LET x == PyInt(AddNum(DivNum(total_deviations, 7),
                                Uniform(-100, 200, Draw(t, s, i - 1))))
          IN IF IsExc(x) THEN x ELSE PyMax(Whole(0), x)]

\* _generate_deviation_data(raw_data)
GenerateDeviationData2(t, g, raw_data) ==
    LET trend == DeviationDays2(t, g, raw_data)
    IN IF FirstExc(trend) # None THEN FirstExc(trend)
       ELSE [trend |-> trend,
             total |-> raw_data["compliance_metrics"]["deviation_count"],
             critical |-> raw_data["compliance_metrics"]["critical_deviations"],
             capa_open |-> raw_data["compliance_metrics"]["capa_open"]]

\* _generate_inventory_data(raw_data)
GenerateInventoryData2(raw_data) ==
    LET m == raw_data["inventory_metrics"]
    IN [total_items |-> m["total_items"],
        low_stock |-> m["low_stock_alerts"],
        expired |-> m["expired_items"],
        critical |-> m["critical_supplies"],
        status_breakdown |->
            Breakdown(SubNum(SubNum(m["total_items"], m["low_stock_alerts"]), m["expired_items"]),
                      m["low_stock_alerts"], m["expired_items"])]

\* _format_for_dashboard(raw_data): an exception of a chart generator
\* propagates to the caller
FormatForDashboard2(t, g, raw_data) ==
    LET production_trend == GenerateProductionTrend2(t, g, raw_data)
        deviation_analysis == GenerateDeviationData2(t, g, raw_data)
        deviation_count == raw_data["compliance_metrics"]["deviation_count"]
        production_exc == FirstExc(ProductionBatches2(t, g, raw_data))
        deviation_exc == FirstExc(DeviationDays2(t, g, raw_data))
    IN IF production_exc # None THEN production_exc
       ELSE IF deviation_exc # None THEN deviation_exc
       ELSE
       [kpis |->
          [total_batches |->
              Kpi(raw_data["production_metrics"]["total_batches"], Fin(830), "good"),
           quality_pass_rate |->
              Kpi(raw_data["quality_metrics"]["pass_rate"], Fin(210), "good"),
           compliance_score |->
              Kpi(raw_data["compliance_metrics"]["audit_score"], Fin(-120), "warning"),
           active_deviations |->
              Kpi(deviation_count, Fin(-2500),
                  DeviationStatus2(deviation_count)),
           inventory_alerts |->
              Kpi(raw_data["inventory_metrics"]["low_stock_alerts"], Fin(1520), "warning")],
        charts |->
          [production_trend |-> production_trend,
           quality_parameters |-> GenerateQualityParams2(raw_data),
           environmental_zones |-> GenerateEnvironmentalData2(raw_data),
           deviation_analysis |-> deviation_analysis,
           inventory_status |-> GenerateInventoryData2(raw_data)]]

FallbackZone2(zone, particles, status, temperature, humidity) ==
    [zone |-> zone, particles |-> Whole(particles), status |-> status,
     temperature |-> Fin(temperature), humidity |-> Whole(humidity)]

\* _get_503b_fallback_data()
Get503bFallbackData ==
    [kpis |->
       [total_batches |-> Kpi(Whole(147), Fin(830), "good"),
        quality_pass_rate |-> Kpi(Fin(9820), Fin(210), "good"),
        compliance_score |-> Kpi(Fin(9730), Fin(-120), "warning"),
        active_deviations |-> Kpi(Whole(3), Fin(-2500), "warning"),
        inventory_alerts |-> Kpi(Whole(12), Fin(1520), "warning")],
     charts |->
       [production_trend |-> FallbackProductionTrend,
        quality_parameters |->
           << Param("Sterility", Whole(100)), Param("Endotoxin", Whole(99)),
              Param("pH Balance", Whole(95)), Param("Particulates", Whole(88)),
              Param("Potency", Whole(102)) >>,
        environmental_zones |->
           << FallbackZone2("ISO 5", 145, "Compliant", 2120, 45),
              FallbackZone2("ISO 7", 2840, "Compliant", 2080, 43),
              FallbackZone2("ISO 8", 89500, "Alert", 2210, 47) >>,
        deviation_analysis |->
           [trend |-> FallbackDeviationTrend, total |-> Whole(8), critical |-> Whole(1),
            capa_open |-> Whole(2)],
        inventory_status |->
           [total_items |-> Whole(156), low_stock |-> Whole(12), expired |-> Whole(3),
            critical |-> Whole(4),
            status_breakdown |-> Breakdown(Whole(141), Whole(12), Whole(3))]]]

\* get_master_sheet_data()
GetMasterSheetData2(client, answer) ==
    IF client = "none" THEN None
    ELSE IF answer.net = "error" THEN None
    ELSE IF answer.values = <<>> THEN None
    ELSE ParsedData2(answer.values[1])

\* get_dashboard_data() of the second connector
GetDashboardData2(t, g, client, answer) ==
    LET raw_data == GetMasterSheetData2(client, answer)
    IN IF raw_data # None THEN FormatForDashboard2(t, g, raw_data)
       ELSE Get503bFallbackData

\* the generator state a get_dashboard_data() call leaves: the last seeding
\* generator is the deviation trend (6 draws; 7 in the second connector, 1
\* when int() raises in the first iteration)
GeneratorAfter(g, client, answer) ==
    IF GetMasterData(client, answer) = None THEN g ELSE After(Seed42(g), Days - 1)
GeneratorAfter2(t, g, client, answer) ==
    IF GetMasterSheetData2(client, answer) = None THEN g
    ELSE IF IsExc(GetDashboardData2(t, g, client, answer)) THEN After(Seed42(g), 1)
    ELSE After(Seed42(g), Days)

\* ------------------------------------------------------------- the application's data
\* the part of the module-level `data` that update_dashboard_charts changes:
\* data['financial']['current'] (ints), data['risk_score'] and
\* data['deadlines']['progress'] (both in hundredths once they are floats)
HistoryDays == 366

\* random.randint(a, b)
RandInt(a, b, d) == a + ((b - a + 1) * d) \div 100

\* generate_sample_data(): seed(42), three draws for each historical date,
\* then the risk score
GenerateSampleData(t) ==
    [financial |-> <<4250000, -1850000, 2400000, -680000, 920000, -340000>>,
     risk_score |-> 100 * RandInt(45, 75, Draw(t, After(Seed42(0), 3 * HistoryDays), 0)),
     progress |-> <<9200, 3500, 9800, 5500, 2000, 7500, 6000>>]

GeneratorAfterSampleData == After(Seed42(0), 3 * HistoryDays + 1)

NoData == [financial |-> <<>>, risk_score |-> 0, progress |-> <<>>]

\* int(x * (1 + variation)), variation = random.uniform(-0.03, 0.04) in
\* ten-thousandths; int() truncates toward zero
VaryFinancial(x, d) ==
    IF x >= 0 THEN x + (x * (7 * d - 300)) \div 10000
    ELSE -((-x) + ((-x) * (7 * d - 300)) \div 10000)

\* max(0, min(100, risk_score + random.uniform(-1.5, 1.5)))
AdjustRisk(r, d) ==
    LET moved == r + Uniform(-150, 150, d).v
        capped == IF moved > 10000 THEN 10000 ELSE moved
    IN IF capped < 0 THEN 0 ELSE capped

\* if random.random() < 0.3: progress = min(100, progress + random.uniform(1, 5))
DeadlineUpdated(d) == d < 30
AdvanceDeadline(p, d) ==
    LET moved == p + Uniform(100, 500, d).v
    IN IF moved > 10000 THEN 10000 ELSE moved

\* the deadline loop from entry i on, run without interruption:
\* the progress list and the generator state it ends with
RECURSIVE UpdateDeadlines(_, _, _, _)
UpdateDeadlines(t, g, progress, i) ==
    IF i > Len(progress) THEN [progress |-> progress, g |-> g]
    ELSE IF DeadlineUpdated(Draw(t, g, 0))
         THEN UpdateDeadlines(t, After(g, 2),
                  [progress EXCEPT ![i] = AdvanceDeadline(progress[i], Draw(t, g, 1))],
                  i + 1)
         ELSE UpdateDeadlines(t, After(g, 1), progress, i + 1)

\* the whole body of `if n_intervals > 0 or refresh_clicks:` run without
\* interruption from generator state g
UpdateData(t, g, d) ==
    LET n == Len(d.financial)
    IN [financial |-> [i \in 1..n |-> VaryFinancial(d.financial[i], Draw(t, g, i - 1))],
        risk_score |-> AdjustRisk(d.risk_score, Draw(t, g, n)),
        progress |-> UpdateDeadlines(t, After(g, n + 1), d.progress, 1).progress]

\* the data after at most n whole refreshes of the data in S
RECURSIVE WholeVersions(_, _, _)
WholeVersions(t, S, n) ==
    IF n = 0 THEN S
    ELSE WholeVersions(t,
             S \cup {UpdateData(t, g, d) : g \in 0..(Period - 1), d \in S}, n - 1)

\* the threads of the server that run callbacks
Workers == {"w1", "w2"}
Idle == [at |-> "idle", i |-> 0]

\* ------------------------------------------------------------- chart templates
\* plotly.io.templates before plotly_templates is imported: the templates that
\* plotly ships (three of them here), the default one being "plotly"
BuiltinTemplates == {"plotly", "plotly_dark", "none"}
PlotlyRegistry ==
    [templates |-> [n \in BuiltinTemplates |-> [builtin |-> n]], default |-> "plotly"]

AxisStyle ==
    [color |-> "#B8B9BB", gridcolor |-> "rgba(255,255,255,0.04)", zeroline |-> FALSE,
     showline |-> FALSE, tickfont |-> [color |-> "#B8B9BB", size |-> 12]]

\* the go.layout.Template that register_gold_dark_template() builds
GoldDarkTemplate ==
    [layout |->
       [paper_bgcolor |-> "#0F1113",
        plot_bgcolor |-> "#1B1D1F",
        font |-> [family |-> "Inter, Roboto, system-ui", color |-> "#F5F6F7", size |-> 13],
        colorway |-> <<"#D4AF37", "#FFCF66", "#B8B9BB", "#3DBC6B", "#E4574C">>,
        xaxis |-> AxisStyle,
        yaxis |-> AxisStyle,
        hoverlabel |-> [bgcolor |-> "#121314", bordercolor |-> "rgba(255,255,255,0.06)",
                        font |-> [color |-> "#F5F6F7", size |-> 12]],
        hovermode |-> "x unified",
        margin |-> [l |-> 40, r |-> 20, t |-> 40, b |-> 40],
        title |-> [font |-> [color |-> "#D4AF37", size |-> 18, family |-> "Inter"],
                   x |-> Fin(50), xanchor |-> "center"],
        legend |-> [bgcolor |-> "rgba(0,0,0,0)", bordercolor |-> "rgba(255,255,255,0.06)",
                    borderwidth |-> 1, font |-> [color |-> "#B8B9BB"]]]]

\* pio.templates[name] = template: the entry is added, or replaced
SetItem(d, key, value) ==
    [x \in DOMAIN d \cup {key} |-> IF x = key THEN value ELSE d[x]]

\* a registration that stores the template and leaves the default alone
RegisterWithoutDefault(pio) ==
    [pio EXCEPT !.templates = SetItem(pio.templates, "gold_dark", GoldDarkTemplate)]

\* a registration whose plot area has the colour of the paper
RegisterPaperColouredPlot(pio) ==
    [templates |-> SetItem(pio.templates, "gold_dark",
                           [GoldDarkTemplate EXCEPT !.layout.plot_bgcolor = "#0F1113"]),
     default |-> "gold_dark"]

\* register_gold_dark_template(): the registry after the call
RegisterGoldDarkTemplate(pio) ==
    [templates |-> SetItem(pio.templates, "gold_dark", GoldDarkTemplate),
     default |-> "gold_dark"]

\* -------------------------------------------------------------------- sessions
Browsers == {"b1", "b2"}
USERS == ("admin" :> "dashboard2024") @@ ("client" :> "lexcura2024")
\* what a visitor types into the login form
Usernames == {"", "admin", "client", "guest"}
Passwords == {"", "dashboard2024", "lexcura2024"}

\* hashlib.sha256(...).hexdigest(): told apart by what was hashed
Sha256(x) == [sha256 |-> x]
\* random.random() at generator state g: a 53-bit float; the draws of one run
\* are told apart by their place in the stream and their value
RandomFloat(t, g) == <<g, Draw(t, g, 0)>>
\* generate_session_id()
GenerateSessionId(t, g) == Sha256(RandomFloat(t, g))

\* verify_credentials(username, password)
VerifyCredentials(username, password) ==
    username \in DOMAIN USERS /\ USERS[username] = password

\* a check of the session that accepts every id
IsAuthenticatedAlways(store, session_id) == TRUE
\* is_authenticated(session_id)
IsAuthenticated(store, session_id) == session_id \in DOMAIN store

\* a dict or None is falsy when it is None or empty
Falsy(d) == d = None \/ DOMAIN d = {}
\* d.get(key), None when the key is absent
Get(d, key) == IF key \in DOMAIN d THEN d[key] ELSE None
EmptyDict == <<>>

\* display_page(pathname, intro_intervals, session_data, intro_data): the
\* layout that is returned
DisplayPageOf(store, pathname, intro_intervals, session_data, intro_data) ==
    LET session_id == IF Falsy(session_data) THEN None ELSE Get(session_data, "session_id")
    IN IF session_id = None \/ ~IsAuthenticated(store, session_id) THEN "login"
       ELSE IF /\ ~Falsy(intro_data)
               /\ ("intro_shown" \in DOMAIN intro_data => ~intro_data.intro_shown)
               /\ intro_intervals = 0
            THEN "logo_intro"
       ELSE IF pathname = "/archive" THEN "archive"
       ELSE IF pathname = "/slides" THEN "slides"
       ELSE IF pathname = "/analytics" THEN "dashboard"
       ELSE IF pathname = "/reports" THEN "dashboard"
       ELSE IF pathname = "/settings" THEN "settings"
       ELSE "dashboard"

\* a logout that empties the store
LogoutClearsStore(store, n_clicks, session_data) == EmptyDict
\* handle_logout(n_clicks, session_data): session_store after the call
StoreAfterLogout(store, n_clicks, session_data) ==
    IF n_clicks # 0 /\ ~Falsy(session_data)
    THEN LET session_id == Get(session_data, "session_id")
         IN [x \in DOMAIN store \ {session_id} |-> store[x]]
    ELSE store

\* ------------------------------------------------------------------ fullscreen
\* the style of the dashboard-content div as get_dashboard_layout() builds it:
\* the div is given no style
NormalStyle == None
FullscreenStyle ==
    [position |-> "fixed", top |-> "0", left |-> "0", width |-> "100vw",
     height |-> "100vh", background_color |-> "#0F1113", z_index |-> "9998",
     overflow |-> "auto", padding |-> "20px"]

\* toggle_fullscreen(n_clicks, current_style)
ToggleFullscreen(n_clicks, current_style) ==
    IF n_clicks # 0 /\ n_clicks % 2 = 1 THEN FullscreenStyle
    ELSE IF Falsy(current_style) THEN EmptyDict ELSE current_style

\* ------------------------------------------------------------- state
VARIABLES
    row,        \* the cells of H2:AD2 as the sheet holds them
    edits,      \* how many cells were edited
    lastEdit,   \* the last edit: [i, c], i = -1 before any edit
    prev1,      \* the first connector's mapping of the row before the last edit
    snap1,      \* the first connector's mapping of `row`, NoResult when not mapped
    prev2,      \* as prev1, second connector
    snap2,      \* as snap1, second connector
    tape,       \* the generator's outputs after seed(42)
    rng,        \* the state of the process-wide generator
    client,     \* self.client: "ok" once authorized, "none" otherwise
    served1,    \* what the last get_dashboard_data() of the first connector returned
    served2,    \* the same, second connector (an exception record when it raised)
    lastLive1,  \* what the last call whose fetch succeeded returned, first connector
    lastLive2,  \* the same, second connector
    lastFetch,  \* "none", "ok" or "failed": how the last call's fetch ended
    requested,  \* whether the last refresh sent a request to the source
    cause,      \* what happened to the last fetch: "ok", "auth", "network", "empty"
    prevCause,  \* what happened to the fetch before the last
    fetched1,   \* what get_master_data() returned in the last refresh
    fetched2,   \* what get_master_sheet_data() returned in the last refresh
    inflight,   \* "waiting" while a request to the source is unanswered
    prevCall,   \* the call of a pure operation before the last one
    lastCall,   \* the last call of a pure operation: [fn, m, g, out]
    data,       \* the application's module-level `data`
    pc,         \* where each thread is in update_dashboard_charts: [at, i]
    seen,       \* the data each thread's last chart rendering read
    starts,     \* how many refreshes of `data` were started
    held,       \* the value each thread computed from `data` and has yet to store
    pio,        \* plotly.io.templates: [templates, default]
    registrations, \* how often register_gold_dark_template() was called
    session_store, \* the module-level session_store: session id -> session
    issued,     \* the session ids that successful logins issued
    ended,      \* the session ids whose session was logged out
    logins,     \* how many logins succeeded
    session,    \* each browser's 'session-store' data
    intro,      \* each browser's 'show-intro' data
    view,       \* the layout each browser shows: "none" before the first one
    clicks,     \* n_clicks of each browser's fullscreen button
    style       \* the style of each browser's dashboard-content div

mapVars == <<row, edits, lastEdit, prev1, snap1, prev2, snap2>>
rngVars == <<tape, rng>>
connVars == <<client, served1, served2, lastLive1, lastLive2, lastFetch,
              requested, cause, prevCause, fetched1, fetched2, inflight>>
trendVars == <<prevCall, lastCall>>
uiVars == <<pio, registrations, session_store, issued, ended, logins, session, intro,
            view, clicks, style>>
appVars == <<data, pc, seen, starts, held, uiVars>>
vars == <<mapVars, rngVars, connVars, trendVars, appVars>>

NoCall == [fn |-> "none", m |-> <<>>, g |-> 0, out |-> <<>>]

NoEdit == [i |-> -1, c |-> <<>>]

\* the connector's state after __init__: connect() leaves self.client None
\* when the credentials are missing or rejected
InitConnector(creds) ==
    /\ client = IF creds = "valid" THEN "ok" ELSE "none"
    /\ served1 = NoResult
    /\ served2 = NoResult
    /\ lastLive1 = NoResult
    /\ lastLive2 = NoResult
    /\ lastFetch = "none"
    /\ requested = FALSE
    /\ cause = "none"
    /\ prevCause = "none"
    /\ fetched1 = NoResult
    /\ fetched2 = NoResult
    /\ inflight = "idle"

\* the application after import: data = generate_sample_data(), no callback running
\* the pages before any browser has loaded one: app.layout gives
\* 'session-store' no data and 'show-intro' the data {'show': False}
InitUi ==
    /\ pio = PlotlyRegistry
    /\ registrations = 0
    /\ session_store = EmptyDict
    /\ issued = {}
    /\ ended = {}
    /\ logins = 0
    /\ session = [b \in Browsers |-> None]
    /\ intro = [b \in Browsers |-> [show |-> FALSE]]
    /\ view = [b \in Browsers |-> "none"]
    /\ clicks = [b \in Browsers |-> 0]
    /\ style = [b \in Browsers |-> NormalStyle]

InitData ==
    /\ data = GenerateSampleData(tape)
    /\ pc = [w \in Workers |-> Idle]
    /\ seen = [w \in Workers |-> NoData]
    /\ starts = 0
    /\ held = [w \in Workers |-> 0]
    /\ InitUi

InitSheet ==
    /\ row \in StartRows
    /\ edits = 0
    /\ lastEdit = NoEdit
    /\ prev1 = NoResult
    /\ snap1 = NoResult
    /\ prev2 = NoResult
    /\ snap2 = NoResult

ConstTapes == {[p \in 0..(Period - 1) |-> d] : d \in DrawVals}

InitMap ==
    /\ InitSheet
    /\ tape \in ConstTapes
    /\ rng = 0
    /\ InitConnector("valid")
    /\ prevCall = NoCall
    /\ lastCall = NoCall
    /\ InitData

\* an editor of the sheet replaces one cell of the row
EditCell(i, c) ==
    /\ edits < MaxEdits
    /\ row[i + 1] # c
    /\ row' = ReplaceCell(row, i, c)
    /\ edits' = edits + 1
    /\ lastEdit' = [i |-> i, c |-> c]
    /\ prev1' = snap1
    /\ prev2' = snap2
    /\ snap1' = NoResult
    /\ snap2' = NoResult
    /\ UNCHANGED <<rngVars, connVars, trendVars, appVars>>

\* the row is mapped by both connectors
MapRow ==
    /\ snap1 = NoResult
    /\ snap1' = MapColumnsToMetrics(row)
    /\ snap2' = ParsedData2(row)
    /\ UNCHANGED <<row, edits, lastEdit, prev1, prev2, rngVars, connVars, trendVars, appVars>>

NextMap ==
    \/ \E i \in 0..(Len(row) - 1), c \in EditCells : EditCell(i, c)
    \/ MapRow

SpecMap == InitMap /\ [][NextMap]_vars

\* ------------------------------------------------------------- refreshes
\* the columns edited in the refresh scenarios: one of each use the
\* dashboards make of a cell (batches, yield, daily production, pass rate,
\* deviations, low stock)
DashCols == {0, 3, 4, 6, 14, 21}

\* the answers the Sheets API can give while the sheet holds `row`
Answers == {Answer("error", <<>>), Answer("ok", <<>>), Answer("ok", <<row>>)}

FetchOk(answer) == client = "ok" /\ answer.net = "ok" /\ answer.values # <<>>

\* what happens to a fetch: no request without a client (credentials
\* missing or rejected), a request that fails, an empty range, a row
Cause(answer) ==
    IF client = "none" THEN "auth"
    ELSE IF answer.net = "error" THEN "network"
    ELSE IF answer.values = <<>> THEN "empty"
    ELSE "ok"

\* one refresh: get_dashboard_data() of both connectors against the same answer
Refresh(answer) ==
    /\ served1' = GetDashboardData(tape, rng, client, answer)
    /\ served2' = GetDashboardData2(tape, GeneratorAfter(rng, client, answer), client, answer)
    /\ rng' = GeneratorAfter2(tape, GeneratorAfter(rng, client, answer), client, answer)
    /\ lastFetch' = IF FetchOk(answer) THEN "ok" ELSE "failed"
    /\ lastLive1' = IF FetchOk(answer) THEN served1' ELSE lastLive1
    /\ lastLive2' = IF FetchOk(answer) THEN served2' ELSE lastLive2
    /\ requested' = (client # "none")
    /\ cause' = Cause(answer)
    /\ prevCause' = cause
    /\ fetched1' = GetMasterData(client, answer)
    /\ fetched2' = GetMasterSheetData2(client, answer)
    /\ inflight' = "idle"
    /\ UNCHANGED <<mapVars, tape, client, trendVars, appVars>>

Init ==
    /\ InitSheet
    /\ tape \in ConstTapes
    /\ rng \in 0..(Period - 1)
    /\ \E creds \in {"missing", "invalid", "valid"} : InitConnector(creds)
    /\ prevCall = NoCall
    /\ lastCall = NoCall
    /\ InitData

Next ==
    \/ \E i \in DashCols, c \in EditCells : i < Len(row) /\ EditCell(i, c)
    \/ \E answer \in Answers : Refresh(answer)

Spec == Init /\ [][Next]_vars

\* ------------------------------------------------------------- a refresh and its request
\* get_master_data() up to worksheet.get(): the request is sent and the
\* call blocks until the source answers
SendRequest ==
    /\ client = "ok"
    /\ inflight = "idle"
    /\ inflight' = "waiting"
    /\ requested' = TRUE
    /\ UNCHANGED <<mapVars, rngVars, trendVars, appVars, client, served1, served2,
                   lastLive1, lastLive2, lastFetch, cause, prevCause, fetched1, fetched2>>

\* the source answers and the refresh runs to its end
AnswerArrives(answer) == inflight = "waiting" /\ Refresh(answer)

\* a refresh without a client sends nothing and returns at once, whatever
\* the source would have answered
RefreshWithoutClient == client = "none" /\ \E answer \in Answers : Refresh(answer)

\* the edits between refreshes: columns H (total_batches) and L
\* (daily_target, daily_production in the second definition), to a number,
\* a text or an infinity
FetchCols == {0, 4}
FetchCells == { <<"1","5">>, <<"a","b","c">>, <<"i","n","f">> }

InitFetch == Init /\ rng = 0

NextFetch ==
    \/ \E i \in FetchCols, c \in FetchCells : i < Len(row) /\ EditCell(i, c)
    \/ SendRequest
    \/ \E answer \in Answers : AnswerArrives(answer)
    \/ RefreshWithoutClient

\* the timer keeps starting refreshes and a refresh that needs no answer
\* ends; nothing obliges the source to answer
SpecFetch ==
    /\ InitFetch
    /\ [][NextFetch]_vars
    /\ WF_vars(SendRequest)
    /\ WF_vars(RefreshWithoutClient)

\* ------------------------------------------------------------- mapping claims
Complete1(s) ==
    /\ DOMAIN s = Groups1
    /\ \A g \in Groups1 :
        /\ DOMAIN s[g] = Fields1(g)
        /\ \A f \in Fields1(g) : IsNumber(s[g][f])

Complete2(s) ==
    /\ DOMAIN s = Groups2
    /\ \A g \in Groups2 :
        /\ DOMAIN s[g] = Fields2(g)
        /\ \A f \in Fields2(g) : IsNumber(s[g][f])

\* C1: for every row of the schema's length, whatever its cells, the mapping
\* of either connector returns (it does not raise) a snapshot in which every
\* field of every group is present and holds a number
C1_MapComplete ==
    (snap1 # NoResult /\ Len(row) = RowLen) =>
        (Complete1(snap1) /\ Complete2(snap2))

\* C1 witness: a full-length row whose int column 0 holds "inf" was mapped
C1_Witness ==
    /\ snap1 # NoResult
    /\ Len(row) = RowLen
    /\ lastEdit = [i |-> 0, c |-> <<"i","n","f">>]

\* a cell that does not parse as the declared type t
BadFor(c, t) ==
    LET x == ParseFloat(StripCommas(c))
    IN IF t = "int" THEN PyInt(x).k # "fin" ELSE ~IsNumber(x)

TypeAt1(i) == (CHOOSE s \in Schema1 : s.idx = i).t

\* C2 as claimed: after a cell of a mapped row is replaced by a cell that does
\* not parse as its field's type, the new mapping differs from the old one
\* in that field only, which holds its default 0
C2_OnlyThatFieldDefaults ==
    (/\ prev1 # NoResult
     /\ snap1 # NoResult
     /\ lastEdit.i >= 0
     /\ BadFor(lastEdit.c, TypeAt1(lastEdit.i)))
    => \A s \in Schema1 :
          snap1[s.g][s.f] = IF s.idx = lastEdit.i THEN Fin(0) ELSE prev1[s.g][s.f]

\* the value the documented rule gives a field: the cell parsed as the
\* declared type after stripping the separators, or the default
RuleValue(r, idx, t, d) ==
    IF idx < Len(r) /\ ~BadFor(r[idx + 1], t)
    THEN IF t = "int" THEN PyInt(ParseFloat(StripCommas(r[idx + 1])))
         ELSE ParseFloat(StripCommas(r[idx + 1]))
    ELSE d

\* C3 as claimed: every mapped field equals the cell parsed as the declared
\* type after stripping thousands separators, or the field's default when
\* the cell is missing or does not parse
C3_ValueIsParsedOrDefault ==
    snap1 # NoResult =>
        /\ \A s \in Schema1 : snap1[s.g][s.f] = RuleValue(row, s.idx, s.t, Fin(0))
        /\ \A s \in Schema2 : snap2[s.g][s.f] = RuleValue(row, s.idx, "float", s.d)

\* the two documented scenarios, as the first connector maps them
ScenarioA_Holds ==
    (snap1 # NoResult /\ row = ScenarioRowA) =>
        /\ snap1["production"]["total_batches"] = Whole(147)
        /\ snap1["production"]["completed_batches"] = Whole(132)
        /\ snap1["production"]["pending_batches"] = Whole(15)
        /\ snap1["production"]["average_yield"] = Fin(9630)
ScenarioB_Holds ==
    (snap1 # NoResult /\ row = ScenarioRowB) =>
        /\ snap1["production"]["total_batches"] = Whole(0)
        /\ snap1["production"]["completed_batches"] = Whole(0)
        /\ snap1["production"]["pending_batches"] = Whole(15)

\* the number of defaulted fields a mapping result carries, None when it
\* carries none
DefaultedCount(m) == IF "defaulted" \in DOMAIN m THEN m.defaulted ELSE None

\* the schema fields whose cell is missing from the row or does not parse
DefaultedFields1(r) ==
    {s \in Schema1 : s.idx >= Len(r) \/ BadFor(r[s.idx + 1], s.t)}

\* C15 as claimed: the mapping returns with the snapshot the number of
\* defaulted fields, the count of schema fields whose cell was missing or
\* failed to parse
C15_DefaultedCountReturned ==
    snap1 # NoResult =>
        DefaultedCount(snap1) = Whole(Cardinality(DefaultedFields1(row)))

\* what the code returns: the groups of the snapshot and nothing else
MappingReturnsSnapshotOnly ==
    snap1 # NoResult => (DOMAIN snap1 = Groups1 /\ DOMAIN snap2 = Groups2)

\* ------------------------------------------------------------- trend synthesis
\* the metric values the synthesis is called with: (batches or daily
\* production, average yield) and deviation totals
ProdInputs == {<<Whole(147), Fin(9630)>>, <<Whole(600), Whole(99)>>}
DevInputs == {<<Whole(3)>>, <<Whole(8)>>}

\* snapshots holding the given metric values
RawProduction(m) ==
    [FallbackStructure EXCEPT !["production"]["total_batches"] = m[1],
                              !["production"]["average_yield"] = m[2]]
RawProduction2(m) ==
    [ParsedData2(BaseRow) EXCEPT !["production_metrics"]["daily_production"] = m[1],
                                 !["production_metrics"]["average_yield"] = m[2]]
RawDeviations(m) ==
    [FallbackStructure EXCEPT !["compliance"]["total_deviations"] = m[1]]
RawDeviations2(m) ==
    [ParsedData2(BaseRow) EXCEPT !["compliance_metrics"]["deviation_count"] = m[1]]

Record(fn, m, out) ==
    /\ prevCall' = lastCall
    /\ lastCall' = [fn |-> fn, m |-> m, g |-> rng, out |-> out]
    /\ UNCHANGED <<mapVars, connVars, tape, appVars>>

\* a call of _generate_production_trend (first connector): 14 draws
CallProductionTrend(m) ==
    /\ Record("production_trend", m, GenerateProductionTrend(tape, rng, RawProduction(m)))
    /\ rng' = After(Seed42(rng), 2 * Days)

\* a call of _generate_production_trend (second connector): 14 draws
CallProductionTrend2(m) ==
    /\ Record("production_trend2", m, GenerateProductionTrend2(tape, rng, RawProduction2(m)))
    /\ rng' = After(Seed42(rng), 2 * Days)

\* a call of _generate_deviation_trend: 6 draws
CallDeviationTrend(m) ==
    /\ Record("deviation_trend", m, GenerateDeviationTrend(tape, rng, RawDeviations(m)))
    /\ rng' = After(Seed42(rng), Days - 1)

\* a call of _generate_deviation_data: 7 draws
CallDeviationData2(m) ==
    /\ Record("deviation_data2", m, GenerateDeviationData2(tape, rng, RawDeviations2(m)))
    /\ rng' = After(Seed42(rng), Days)

\* another operation of the process draws one number from the generator
\* (generate_session_id, a variation of update_dashboard_charts)
OtherDraw ==
    /\ rng' = After(rng, 1)
    /\ UNCHANGED <<mapVars, connVars, tape, trendVars, appVars>>

InitTrend ==
    /\ InitSheet
    /\ row = BaseRow
    /\ tape \in AllTapes
    /\ rng \in 0..(Period - 1)
    /\ InitConnector("valid")
    /\ prevCall = NoCall
    /\ lastCall = NoCall
    /\ InitData

\* production trend calls among the process's other draws
NextTrend ==
    \/ \E m \in ProdInputs : CallProductionTrend(m)
    \/ \E m \in ProdInputs : CallProductionTrend2(m)
    \/ OtherDraw

SpecTrend == InitTrend /\ [][NextTrend]_vars

\* deviation series calls among the process's other draws
NextDev ==
    \/ \E m \in DevInputs : CallDeviationTrend(m)
    \/ \E m \in DevInputs : CallDeviationData2(m)
    \/ OtherDraw

SpecDev == InitTrend /\ [][NextDev]_vars

RECURSIVE SumNum(_)
SumNum(xs) == IF xs = <<>> THEN 0 ELSE Head(xs).v + SumNum(Tail(xs))

IsProduction(c) == c.fn \in {"production_trend", "production_trend2"}
IsDeviation(c) == c.fn \in {"deviation_trend", "deviation_data2"}

\* C9: two production trend calls with the same metric values return the
\* same series, whatever the generator's state at each call (that is, whatever
\* drew from the generator before or between them)
C9_TrendDeterministic ==
    (IsProduction(prevCall) /\ prevCall.fn = lastCall.fn /\ prevCall.m = lastCall.m)
        => prevCall.out = lastCall.out

\* C9 witness: two production trend calls with the same metric values were
\* made from different generator states
C9_Witness ==
    /\ IsProduction(prevCall)
    /\ prevCall.fn = lastCall.fn
    /\ prevCall.m = lastCall.m
    /\ prevCall.g # lastCall.g

\* C10 as claimed: the 7-day deviation series of either connector sums to
\* the total it was produced from, whatever the draws
C10_DeviationSeriesSumsToTotal ==
    IsDeviation(lastCall) => SumNum(lastCall.out.trend) = lastCall.m[1].v

\* what holds: the series of the first connector, whose last day takes the
\* remainder, sums to the total
FirstDeviationSeriesSumsToTotal ==
    lastCall.fn = "deviation_trend" => SumNum(lastCall.out.trend) = lastCall.m[1].v

\* C11 as claimed: a trend synthesis call leaves the process-wide generator
\* as it found it, so that what any later operation draws is the same
\* whether or not the call happened
C11_GeneratorUnchanged ==
    [][(\E m \in ProdInputs : CallProductionTrend(m) \/ CallProductionTrend2(m))
          => rng' = rng]_vars

\* what the code does: a production trend call leaves the generator 14
\* draws after seed 42, wherever it was
TrendCallReseedsGenerator ==
    [][(\E m \in ProdInputs : CallProductionTrend(m) \/ CallProductionTrend2(m))
          => rng' = After(0, 2 * Days)]_vars

\* ------------------------------------------------------------- status classification
\* the metric values classified: around every threshold, and the
\* non-finite floats a cell can hold
StatusInputs ==
    {Whole(0), Whole(2), Fin(250), Whole(3), Whole(4), Whole(5), Whole(6), Whole(10),
     Whole(11), Whole(25), Fin(2501), Whole(50), Whole(51), Whole(75), Fin(7550),
     Fin(9499), Whole(95), Whole(100), PInf, NInf, NaN}

StatusNames ==
    {"quality_status", "deviation_status", "compliance_status", "inventory_status",
     "deviation_status2", "risk_level"}

StatusOf(fn, x) ==
    CASE fn = "quality_status" -> QualityStatus(x)
      [] fn = "deviation_status" -> DeviationStatus(x)
      [] fn = "compliance_status" -> ComplianceStatus(x)
      [] fn = "inventory_status" -> InventoryStatus(x)
      [] fn = "deviation_status2" -> DeviationStatus2(x)
      [] fn = "risk_level" -> RiskLevel(x)

\* a metric value is classified
Classify(fn, x) ==
    /\ Record(fn, <<x>>, StatusOf(fn, x))
    /\ rng' = rng

InitStatus ==
    /\ InitSheet
    /\ row = BaseRow
    /\ tape \in ConstTapes
    /\ rng = 0
    /\ InitConnector("valid")
    /\ prevCall = NoCall
    /\ lastCall = NoCall
    /\ InitData

NextStatus == \E fn \in StatusNames, x \in StatusInputs : Classify(fn, x)

SpecStatus == InitStatus /\ [][NextStatus]_vars

\* good is better than warning, warning better than critical; the risk
\* levels from Minimal to High
Rank(status) ==
    CASE status \in {"good", "Minimal"} -> 0
      [] status \in {"warning", "Low"} -> 1
      [] status \in {"critical", "Moderate"} -> 2
      [] status = "High" -> 3

\* C12: every status classification is monotonic in its metric's direction:
\* of two classifications of one metric, the larger value of a
\* higher-is-better metric (pass rate) never has the worse status, and the
\* larger value of a lower-is-better metric (deviations, low stock items,
\* risk score) never has the better one
C12_StatusMonotonic ==
    (/\ lastCall.fn \in StatusNames
     /\ prevCall.fn = lastCall.fn
     /\ LtNum(prevCall.m[1], lastCall.m[1]))
        => IF lastCall.fn = "quality_status"
           THEN Rank(lastCall.out) <= Rank(prevCall.out)
           ELSE Rank(lastCall.out) >= Rank(prevCall.out)

\* C12 witness: a pass rate below the threshold was classified warning and
\* then a larger one good, and a deviation count good and a larger one critical
C12_Witness ==
    /\ prevCall.fn = lastCall.fn
    /\ lastCall.fn \in {"quality_status", "deviation_status"}
    /\ LtNum(prevCall.m[1], lastCall.m[1])
    /\ prevCall.out # lastCall.out

\* ------------------------------------------------------------- the application's refresh
\* update_dashboard_charts, one thread per request; a thread may be
\* preempted between two statements, so each statement of the body is a step

\* the callback is entered: a timer tick (n_intervals) or a click
\* (refresh_clicks, 0 for None) starts a refresh of `data`, the first call
\* of a page (n_intervals = 0, no click) only renders
StartUpdate(w, n_intervals, refresh_clicks) ==
    /\ pc[w] = Idle
    /\ IF n_intervals > 0 \/ refresh_clicks # 0
       THEN /\ starts < MaxRefreshStarts
            /\ starts' = starts + 1
            /\ pc' = [pc EXCEPT ![w] = [at |-> "financial", i |-> 1]]
       ELSE /\ starts' = starts
            /\ pc' = [pc EXCEPT ![w] = [at |-> "render", i |-> 0]]
    /\ UNCHANGED <<mapVars, rngVars, connVars, trendVars, data, seen, held, uiVars>>

\* data['financial']['current'][i] = int(... * (1 + variation))
VaryFinancialEntry(w) ==
    /\ pc[w].at = "financial"
    /\ data' = [data EXCEPT !.financial[pc[w].i] = VaryFinancial(@, Draw(tape, rng, 0))]
    /\ rng' = After(rng, 1)
    /\ pc' = [pc EXCEPT ![w] = IF pc[w].i < Len(data.financial)
                                THEN [at |-> "financial", i |-> pc[w].i + 1]
                                ELSE [at |-> "risk", i |-> 0]]
    /\ UNCHANGED <<mapVars, tape, connVars, trendVars, seen, starts, held, uiVars>>

\* data['risk_score'] = max(0, min(100, data['risk_score'] + risk_change))
AdjustRiskScore(w) ==
    /\ pc[w].at = "risk"
    /\ data' = [data EXCEPT !.risk_score = AdjustRisk(@, Draw(tape, rng, 0))]
    /\ rng' = After(rng, 1)
    /\ pc' = [pc EXCEPT ![w] = [at |-> "progress", i |-> 1]]
    /\ UNCHANGED <<mapVars, tape, connVars, trendVars, seen, starts, held, uiVars>>

\* one pass of the deadline loop
UpdateDeadline(w) ==
    /\ pc[w].at = "progress"
    /\ IF DeadlineUpdated(Draw(tape, rng, 0))
       THEN /\ data' = [data EXCEPT !.progress[pc[w].i] =
                            AdvanceDeadline(@, Draw(tape, rng, 1))]
            /\ rng' = After(rng, 2)
       ELSE /\ data' = data
            /\ rng' = After(rng, 1)
    /\ pc' = [pc EXCEPT ![w] = IF pc[w].i < Len(data.progress)
                                THEN [at |-> "progress", i |-> pc[w].i + 1]
                                ELSE [at |-> "render", i |-> 0]]
    /\ UNCHANGED <<mapVars, tape, connVars, trendVars, seen, starts, held, uiVars>>

\* the return statement: create_financial_chart(), create_deadline_chart(),
\* create_risk_gauge() read `data` (here in one step), and the callback returns
RenderCharts(w) ==
    /\ pc[w].at = "render"
    /\ seen' = [seen EXCEPT ![w] = data]
    /\ pc' = [pc EXCEPT ![w] = Idle]
    /\ UNCHANGED <<mapVars, rngVars, connVars, trendVars, data, starts, held, uiVars>>

InitApp ==
    /\ InitSheet
    /\ row = BaseRow
    /\ tape \in ConstTapes
    /\ rng = GeneratorAfterSampleData
    /\ InitConnector("missing")
    /\ prevCall = NoCall
    /\ lastCall = NoCall
    /\ InitData

NextApp ==
    \/ \E w \in Workers, n_intervals \in {0, 1}, refresh_clicks \in {0, 1} :
           StartUpdate(w, n_intervals, refresh_clicks)
    \/ \E w \in Workers : VaryFinancialEntry(w)
    \/ \E w \in Workers : AdjustRiskScore(w)
    \/ \E w \in Workers : UpdateDeadline(w)
    \/ \E w \in Workers : RenderCharts(w)
    \/ OtherDraw

SpecApp == InitApp /\ [][NextApp]_vars

\* ------------------------------------------------------------- refresh claims
KpiNames ==
    {"total_batches", "quality_pass_rate", "compliance_score", "active_deviations",
     "inventory_alerts"}
ChartNames ==
    {"production_trend", "quality_parameters", "environmental_zones",
     "deviation_analysis", "inventory_status"}

\* a returned dashboard with every KPI and every chart entry
FullyFormed(d) ==
    /\ DOMAIN d = {"kpis", "charts"}
    /\ DOMAIN d.kpis = KpiNames
    /\ DOMAIN d.charts = ChartNames

\* the source marker a returned dashboard carries, "unmarked" when it has none
SourceKind(d) == IF "sourceKind" \in DOMAIN d THEN d.sourceKind ELSE "unmarked"

\* C4 as claimed: after a refresh whose fetch failed, with an earlier refresh
\* that succeeded, the served data is that of the last successful refresh,
\* marked as cached, and nothing was raised
C4_ServesLastGoodAsCached ==
    (lastFetch = "failed" /\ lastLive1 # NoResult) =>
        /\ FullyFormed(served1)
        /\ served1.kpis = lastLive1.kpis
        /\ served1.charts = lastLive1.charts
        /\ SourceKind(served1) = "cached"

\* C5 as claimed: after a refresh whose fetch failed, with no refresh that
\* ever succeeded, the served data is the fixed fallback dataset and it is
\* marked as fallback
C5_FallbackIsMarked ==
    (lastFetch = "failed" /\ lastLive1 = NoResult) =>
        /\ FullyFormed(served1)
        /\ served1.kpis = GetFallbackDashboardData.kpis
        /\ served1.charts = GetFallbackDashboardData.charts
        /\ SourceKind(served1) = "fallback"

\* C6 as claimed: get_dashboard_data of either connector never raises and
\* returns a dashboard with every KPI and chart entry, whatever the
\* connection state and the row
C6_NeverRaisesFullyFormed ==
    /\ served1 # NoResult => FullyFormed(served1)
    /\ served2 # NoResult => FullyFormed(served2)

\* what holds of the first connector alone
FirstConnectorFullyFormed == served1 # NoResult => FullyFormed(served1)
\* what the code does on a failed fetch: the fixed fallback dataset, whatever
\* was fetched before
FailedFetchServesFallback ==
    lastFetch = "failed" =>
        served1 = GetFallbackDashboardData /\ served2 = Get503bFallbackData

\* the compliance percentage a zone entry carries, None when it has none
CompliancePercent(z) ==
    IF "compliance_percent" \in DOMAIN z THEN z.compliance_percent ELSE None

ZoneInRange(z) ==
    /\ IsNumber(CompliancePercent(z))
    /\ GeNum(CompliancePercent(z), Whole(0))
    /\ LeNum(CompliancePercent(z), Whole(100))
    /\ z.particles = Whole(0) => CompliancePercent(z) = Whole(100)

\* C13 as claimed: every zone of a served dashboard has a compliance
\* percentage, within [0,100], and 100 when the particle count is 0
C13_CompliancePercentInRange ==
    /\ served1 # NoResult =>
          \A i \in 1..Len(served1.charts.environmental_zones) :
              ZoneInRange(served1.charts.environmental_zones[i])
    /\ (served2 # NoResult /\ ~IsExc(served2)) =>
          \A i \in 1..Len(served2.charts.environmental_zones) :
              ZoneInRange(served2.charts.environmental_zones[i])

\* the last refresh fetched a row with fewer cells than the range has columns
ShortRowFetched == cause = "ok" /\ Len(row) < RowLen

\* the last refresh served the mapping of the fetched row as live data
ServedMappedRow ==
    /\ Complete1(fetched1)
    /\ served1 = FormatDashboardData(tape, 0, fetched1)

\* C14 as claimed: a fetched row shorter than the schema is never mapped to
\* a snapshot that is then served as live data
C14_ShortRowNotServed == ShortRowFetched => ~ServedMappedRow

\* what the code does: every fetched row is mapped and served, with the
\* cells it lacks defaulted
FetchedRowIsServed == cause = "ok" => ServedMappedRow

\* C16 as claimed: when the fetched row defaults too many fields (here:
\* every field, a row of only empty or non-numeric cells), the refresh
\* serves the fallback dataset, not the mostly-default snapshot
C16_MostlyDefaultServesFallback ==
    (cause = "ok" /\ DefaultedFields1(row) = Schema1) =>
        served1 = GetFallbackDashboardData

\* C17: when the credentials were missing or invalid at construction the
\* client is unset, stays unset in every later state (nothing re-attempts
\* the connection), no request is sent to the source and every
\* get_dashboard_data call returns the fallback data
C17_NoReconnect ==
    /\ [](client = "none" =>
            /\ ~requested
            /\ inflight = "idle"
            /\ served1 \in {NoResult, GetFallbackDashboardData}
            /\ served2 \in {NoResult, Get503bFallbackData})
    /\ [][client = "none" => client' = "none"]_vars

\* C17 witness: two refreshes ran without a client, against a source that
\* would have answered with a row
C17_Witness ==
    /\ client = "none"
    /\ prevCause = "auth"
    /\ cause = "auth"
    /\ served1 = GetFallbackDashboardData

\* C18: a transient failure does not disable later refreshes: with a
\* client, the refresh after a failed one sends its request, and when the
\* source answers with a row the mapping of that row is what is served
C18_RetryAfterFailure ==
    [][(lastFetch = "failed" /\ client = "ok" /\ \E a \in Answers : Refresh(a))
          => /\ requested'
             /\ cause' = "ok" =>
                   /\ fetched1' = MapColumnsToMetrics(row)
                   /\ served1' = FormatDashboardData(tape, 0, fetched1')
                   /\ lastLive1' = served1']_vars

\* C18 witness: a refresh failed on a network error or an empty range and
\* the next one fetched a row and served its mapping
C18_Witness ==
    /\ prevCause \in {"network", "empty"}
    /\ cause = "ok"
    /\ requested
    /\ served1 # GetFallbackDashboardData

\* the cause a fetch result tells its caller, "unknown" when it tells none
FailureCause(x) == IF "cause" \in DOMAIN x THEN x.cause ELSE "unknown"

\* C19 as claimed: the fetch raises nothing and its failure result tells
\* which of the three causes occurred
C19_FailureTellsCause ==
    cause \in {"auth", "network", "empty"} =>
        /\ ~IsExc(fetched1) /\ FailureCause(fetched1) = cause
        /\ ~IsExc(fetched2) /\ FailureCause(fetched2) = cause

\* what the code does: nothing is raised, and every failure is the one value None
FetchFailureIsNone ==
    /\ ~IsExc(fetched1) /\ ~IsExc(fetched2)
    /\ cause \in {"auth", "network", "empty"} => (fetched1 = None /\ fetched2 = None)

\* C20 as claimed: every refresh cycle eventually completes, also when the
\* source never answers the request
C20_RefreshCompletes == (inflight = "waiting") ~> (inflight = "idle")

\* a refresh that was answered has ended and served a dashboard or raised
AnsweredRefreshEnds ==
    [][(inflight = "waiting" /\ inflight' = "idle") => served1' # NoResult]_vars

\* ------------------------------------------------------------- the application's refresh: claims
Refreshing(w) == pc[w].at \in {"financial", "risk", "progress"}

\* C7: a reader that runs concurrently with a refresh observes either the
\* complete data from before the refresh or the complete data from after
\* it, never a state in which some fields are updated and others are not:
\* what a rendering read is the initial data after some number of whole
\* refreshes
C7_ReaderSeesWholeData ==
    \A w \in Workers :
        seen[w] # NoData =>
            seen[w] \in WholeVersions(tape, {GenerateSampleData(tape)}, MaxRefreshStarts)

\* with no refresh in progress the data is whole: only a refresh in progress
\* exposes partly updated data
QuiescentDataIsWhole ==
    (\A v \in Workers : ~Refreshing(v)) =>
        data \in WholeVersions(tape, {GenerateSampleData(tape)}, MaxRefreshStarts)

\* C8: at most one refresh is in progress at any time: a trigger that
\* arrives while a refresh is running starts no second refresh
C8_AtMostOneRefresh ==
    \A v, w \in Workers : (Refreshing(v) /\ Refreshing(w)) => v = w

\* ------------------------------------------------------------- the fallback snapshot
\* _map_columns_to_metrics(row) is called
CallMapColumns ==
    /\ Record("map_columns", row, MapColumnsToMetrics(row))
    /\ rng' = rng

\* _get_fallback_structure() is called
CallFallbackStructure ==
    /\ Record("fallback_structure", row, FallbackStructure)
    /\ rng' = rng

NextFallback ==
    \/ \E i \in FetchCols, c \in FetchCells : i < Len(row) /\ EditCell(i, c)
    \/ CallMapColumns
    \/ CallFallbackStructure

SpecFallback == InitMap /\ [][NextFallback]_vars

\* the groups of a snapshot and the field names of each
Shape(m) == [g \in DOMAIN m |-> DOMAIN m[g]]

\* C21: the fallback snapshot is constant and schema-complete: every call
\* returns the same values, whatever the sheet holds, and it has exactly the
\* groups and field names of a mapped snapshot, each with a numeric value
C21_FallbackConstantComplete ==
    lastCall.fn = "fallback_structure" =>
        /\ Complete1(lastCall.out)
        /\ prevCall.fn = "fallback_structure" => prevCall.out = lastCall.out
        /\ prevCall.fn = "map_columns" => Shape(prevCall.out) = Shape(lastCall.out)

\* C21 witness: a row was mapped field by field, and then the fallback
\* snapshot was asked for while the sheet held another row
C21_Witness ==
    /\ lastCall.fn = "fallback_structure"
    /\ prevCall.fn = "map_columns"
    /\ prevCall.out # lastCall.out
    /\ prevCall.m # lastCall.m

\* ------------------------------------------------------------- served dashboards: claims
\* a dashboard was returned (the call did not raise)
Returned(d) == d # NoResult /\ ~IsExc(d)

\* C22: in every dashboard get_dashboard_data returns, live or fallback and
\* for every row, the status of every KPI is good, warning or critical
C22_KpiStatusInSet ==
    /\ Returned(served1) =>
          \A k \in KpiNames : served1.kpis[k].status \in {"good", "warning", "critical"}
    /\ Returned(served2) =>
          \A k \in KpiNames : served2.kpis[k].status \in {"good", "warning", "critical"}

\* C22 witness: a live dashboard of each connector with a critical KPI, after
\* a fallback dashboard
C22_Witness ==
    /\ prevCause \in {"network", "empty"}
    /\ cause = "ok"
    /\ Returned(served1)
    /\ Returned(served2)
    /\ served1.kpis.active_deviations.status = "critical"
    /\ served2.kpis.active_deviations.status = "critical"

\* ---------------------------------------------- claims about dashboard agreement
\* the deviation KPI of a dashboard repeats the total of its deviation chart
DeviationKpiIsTotal(d) ==
    d.kpis.active_deviations.value = d.charts.deviation_analysis.total
\* the inventory chart counts no fewer than zero good items
GoodCountNonNegative(d) ==
    GeNum(d.charts.inventory_status.status_breakdown["Good"], Whole(0))

\* C30: in every dashboard that is returned, live or fallback, the value of the
\* active_deviations KPI equals the total of deviation_analysis, and the Good
\* count of the inventory status_breakdown is not negative.
C30_DashboardAgrees ==
    /\ Returned(served1) => DeviationKpiIsTotal(served1) /\ GoodCountNonNegative(served1)
    /\ Returned(served2) => DeviationKpiIsTotal(served2) /\ GoodCountNonNegative(served2)

\* what holds of the first definition, live and fallback
FirstDashboardAgrees ==
    Returned(served1) => DeviationKpiIsTotal(served1) /\ GoodCountNonNegative(served1)
\* what holds of a live dashboard of the second definition
SecondLiveKpiIsTotal ==
    Returned(served2) /\ served2 # Get503bFallbackData => DeviationKpiIsTotal(served2)

\* --------------------------------------------------------------- page callbacks
MaxRegistrations == 2
\* fewer logins than the generator has places, so that the draws of one run
\* are at different places
MaxLogins == 2
MaxClicks == 2

Pathnames == {"/", "/settings"}
IntroIntervals == {0, 1}
SignedInViews == {"dashboard", "archive", "slides", "settings"}

nonUiVars == <<mapVars, connVars, trendVars, tape, data, pc, seen, starts, held>>

\* plotly_templates is imported, or a test calls the function again; app.py
\* does not import the module, so this is before a page is served
CallRegisterGoldDarkTemplate ==
    /\ \A b \in Browsers : view[b] = "none"
    /\ registrations < MaxRegistrations
    /\ pio' = RegisterGoldDarkTemplate(pio)
    /\ registrations' = registrations + 1
    /\ UNCHANGED <<nonUiVars, rng, session_store, issued, ended, logins, session, intro,
                   view, clicks, style>>

\* the session data a request of browser b can carry: the browser's own, or
\* one made up around a session id that was issued at some time
Presentable(b) ==
    {session[b]} \cup {[session_id |-> i, username |-> "admin"] : i \in issued}

\* display_page runs for browser b; the layout it returns replaces the page,
\* its dashboard-content div and its fullscreen button
DisplayPage(b, pathname, intro_intervals, session_data) ==
    LET page == DisplayPageOf(session_store, pathname, intro_intervals, session_data,
                              intro[b])
    IN /\ view' = [view EXCEPT ![b] = page]
       /\ clicks' = [clicks EXCEPT ![b] = 0]
       /\ style' = [style EXCEPT ![b] = NormalStyle]
       /\ UNCHANGED <<nonUiVars, rng, pio, registrations, session_store, issued, ended,
                      logins, session, intro>>

\* handle_login runs for browser b, which shows the login form
HandleLogin(b, n_clicks, username, password) ==
    /\ view[b] = "login"
    /\ IF n_clicks # 0 /\ username # "" /\ password # "" /\ VerifyCredentials(username, password)
       THEN LET session_id == GenerateSessionId(tape, rng)
            IN /\ logins < MaxLogins
               /\ rng' = After(rng, 1)
               /\ logins' = logins + 1
               /\ session_store' = SetItem(session_store, session_id,
                                           [username |-> username, login_time |-> logins])
               /\ issued' = issued \cup {session_id}
               /\ session' = [session EXCEPT ![b] =
                                 [session_id |-> session_id, username |-> username]]
               /\ intro' = [intro EXCEPT ![b] = [show |-> TRUE, intro_shown |-> FALSE]]
       ELSE /\ session' = [session EXCEPT ![b] = EmptyDict]
            /\ intro' = [intro EXCEPT ![b] = [show |-> FALSE, intro_shown |-> TRUE]]
            /\ UNCHANGED <<rng, logins, session_store, issued>>
    /\ UNCHANGED <<nonUiVars, pio, registrations, ended, view, clicks, style>>

\* complete_intro runs for browser b, which shows the logo intro
CompleteIntro(b, n_intervals) ==
    /\ view[b] = "logo_intro"
    /\ n_intervals > 0 /\ "intro_shown" \in DOMAIN intro[b] /\ ~intro[b].intro_shown
    /\ intro' = [intro EXCEPT ![b] = [show |-> TRUE, intro_shown |-> TRUE]]
    /\ UNCHANGED <<nonUiVars, rng, pio, registrations, session_store, issued, ended, logins,
                   session, view, clicks, style>>

\* handle_logout runs for browser b, whose page has the logout button
HandleLogout(b, n_clicks) ==
    /\ view[b] \in SignedInViews
    /\ session_store' = StoreAfterLogout(session_store, n_clicks, session[b])
    /\ ended' = IF n_clicks # 0 /\ ~Falsy(session[b]) /\ "session_id" \in DOMAIN session[b]
                THEN ended \cup {session[b].session_id} ELSE ended
    /\ session' = [session EXCEPT ![b] = EmptyDict]
    /\ intro' = [intro EXCEPT ![b] = [show |-> FALSE, intro_shown |-> TRUE]]
    /\ UNCHANGED <<nonUiVars, rng, pio, registrations, issued, logins, view, clicks, style>>

\* toggle_fullscreen runs for browser b: the button was clicked once more, and
\* the State is the style the div has
CallToggleFullscreen(b) ==
    /\ view[b] = "dashboard"
    /\ clicks[b] < MaxClicks
    /\ clicks' = [clicks EXCEPT ![b] = @ + 1]
    /\ style' = [style EXCEPT ![b] = ToggleFullscreen(clicks[b] + 1, style[b])]
    /\ UNCHANGED <<nonUiVars, rng, pio, registrations, session_store, issued, ended, logins,
                   session, intro, view>>

\* the pages draw from the generator only for session ids, which are told
\* apart by the place of the draw: one sequence of outputs is enough
PagesTape == [p \in 0..(Period - 1) |-> 50]

InitPages ==
    /\ InitSheet
    /\ row = BaseRow
    /\ tape = PagesTape
    /\ rng = GeneratorAfterSampleData
    /\ InitConnector("none")
    /\ prevCall = NoCall
    /\ lastCall = NoCall
    /\ InitData

NextPages ==
    \/ CallRegisterGoldDarkTemplate
    \/ \E b \in Browsers, pathname \in Pathnames, intro_intervals \in IntroIntervals :
           \E session_data \in Presentable(b) :
               DisplayPage(b, pathname, intro_intervals, session_data)
    \/ \E b \in Browsers, n_clicks \in {0, 1}, username \in Usernames, password \in Passwords :
           HandleLogin(b, n_clicks, username, password)
    \/ \E b \in Browsers, n_intervals \in IntroIntervals : CompleteIntro(b, n_intervals)
    \/ \E b \in Browsers, n_clicks \in {0, 1} : HandleLogout(b, n_clicks)
    \/ \E b \in Browsers : CallToggleFullscreen(b)

SpecPages == InitPages /\ [][NextPages]_vars

\* ------------------------------------------------------- claims about templates
\* C23: register_gold_dark_template is idempotent: after any number of calls,
\* one or more, the registry holds "gold_dark", the default template is
\* "gold_dark", and the registry is what a single call makes of plotly's own.
C23_RegistrationIdempotent ==
    registrations >= 1 =>
        /\ "gold_dark" \in DOMAIN pio.templates
        /\ pio.default = "gold_dark"
        /\ pio = RegisterGoldDarkTemplate(PlotlyRegistry)
        /\ DOMAIN pio.templates = BuiltinTemplates \cup {"gold_dark"}
C23_Witness == registrations >= 2 /\ pio # PlotlyRegistry

CarriesLiveSession(store, session_data) ==
    /\ ~Falsy(session_data)
    /\ "session_id" \in DOMAIN session_data
    /\ session_data.session_id \in DOMAIN store

\* C25: display_page returns a layout other than the login layout only when the
\* session data it was given carries a session id that is in session_store at
\* the time of the call.
C25_PageOnlyWhenAuthenticated ==
    [][\A b \in Browsers :
         view'[b] # "login" /\ session_store' = session_store /\ session' = session =>
             \A session_data \in Presentable(b) :
                 ~CarriesLiveSession(session_store, session_data) =>
                     \A pathname \in Pathnames, intro_intervals \in IntroIntervals :
                         ~DisplayPage(b, pathname, intro_intervals, session_data)]_vars
\* a browser shows a page of the dashboard after another session was ended
C25_Witness ==
    /\ ended # {}
    /\ \E b \in Browsers : view[b] = "dashboard" /\ CarriesLiveSession(session_store, session[b])

\* C26: whatever the order of the logins and logouts of the users, the session
\* ids that are authenticated are those that a successful login issued and
\* whose session was not logged out since: a failed login adds none, a logout
\* removes only the session of the browser that logged out.
C26_AuthenticatedIffLive ==
    /\ DOMAIN session_store = issued \ ended
    /\ \A b \in Browsers :
           CarriesLiveSession(session_store, session[b]) =>
               session_store[session[b].session_id].username = session[b].username
C26_Witness ==
    /\ logins = MaxLogins
    /\ ended # {}
    /\ DOMAIN session_store # {}
    /\ \E b \in Browsers : session[b] = EmptyDict

\* the session id that the n-th draw after random.seed(42) gives
SessionIdOfDraw(n) == GenerateSessionId(tape, After(Seed42(rng), n))

\* C27: a session id is not a function of the constant seed and of the number
\* of draws made since: no issued id is the hash of the n-th output of the
\* generator seeded with 42, for any n.
C27_SessionIdUnpredictable ==
    \A id \in issued : \A n \in 0..(Period - 1) : id # SessionIdOfDraw(n)

\* what the code does: the first session id of every run is the hash of the
\* draw that follows those of generate_sample_data()
FirstSessionIdIsFixed ==
    logins = 1 => issued = {GenerateSessionId(tape, GeneratorAfterSampleData)}
\* within one run of app.py no two logins are given the same id
SessionIdsDiffer == Cardinality(issued) = logins

\* ------------------------------------------------------ claims about fullscreen
\* C28: toggle_fullscreen alternates: after an odd number of clicks the
\* dashboard-content div has the fullscreen style, after an even number it has
\* its original style, which is no style.
C28_FullscreenAlternates ==
    \A b \in Browsers :
        view[b] = "dashboard" =>
            IF clicks[b] % 2 = 1 THEN style[b] = FullscreenStyle ELSE Falsy(style[b])

\* what the code does: once on, the fullscreen style stays
FullscreenStaysOn ==
    \A b \in Browsers :
        view[b] = "dashboard" =>
            IF clicks[b] >= 1 THEN style[b] = FullscreenStyle ELSE Falsy(style[b])

\* ------------------------------------------- the refresh, statement by statement
\* Each assignment of the refresh evaluates its right-hand side, which reads
\* `data` and ends in a call of int, max or min, and then stores the item; the
\* interpreter can switch threads between the two.
NextEntry(w, at, n, then) ==
    IF pc[w].i < n THEN [at |-> at, i |-> pc[w].i + 1] ELSE [at |-> then, i |-> 1]

\* int(data['financial']['current'][i] * (1 + variation)) is evaluated
ReadFinancialEntry(w) ==
    /\ pc[w].at = "financial"
    /\ held' = [held EXCEPT ![w] = VaryFinancial(data.financial[pc[w].i], Draw(tape, rng, 0))]
    /\ rng' = After(rng, 1)
    /\ pc' = [pc EXCEPT ![w] = [at |-> "store_financial", i |-> pc[w].i]]
    /\ UNCHANGED <<mapVars, tape, connVars, trendVars, data, seen, starts, uiVars>>

\* data['financial']['current'][i] = ...
WriteFinancialEntry(w) ==
    /\ pc[w].at = "store_financial"
    /\ data' = [data EXCEPT !.financial[pc[w].i] = held[w]]
    /\ pc' = [pc EXCEPT ![w] = NextEntry(w, "financial", Len(data.financial), "risk")]
    /\ UNCHANGED <<mapVars, rngVars, connVars, trendVars, seen, starts, held, uiVars>>

\* max(0, min(100, data['risk_score'] + risk_change)) is evaluated
ReadRiskScore(w) ==
    /\ pc[w].at = "risk"
    /\ held' = [held EXCEPT ![w] = AdjustRisk(data.risk_score, Draw(tape, rng, 0))]
    /\ rng' = After(rng, 1)
    /\ pc' = [pc EXCEPT ![w] = [at |-> "store_risk", i |-> 1]]
    /\ UNCHANGED <<mapVars, tape, connVars, trendVars, data, seen, starts, uiVars>>

\* data['risk_score'] = ...
WriteRiskScore(w) ==
    /\ pc[w].at = "store_risk"
    /\ data' = [data EXCEPT !.risk_score = held[w]]
    /\ pc' = [pc EXCEPT ![w] = [at |-> "progress", i |-> 1]]
    /\ UNCHANGED <<mapVars, rngVars, connVars, trendVars, seen, starts, held, uiVars>>

\* one pass of the deadline loop up to the store: the test, the increase,
\* and min(100, data['deadlines']['progress'][i] + progress_increase)
ReadDeadline(w) ==
    /\ pc[w].at = "progress"
    /\ IF DeadlineUpdated(Draw(tape, rng, 0))
       THEN /\ held' = [held EXCEPT ![w] =
                            AdvanceDeadline(data.progress[pc[w].i], Draw(tape, rng, 1))]
            /\ rng' = After(rng, 2)
            /\ pc' = [pc EXCEPT ![w] = [at |-> "store_progress", i |-> pc[w].i]]
       ELSE /\ held' = held
            /\ rng' = After(rng, 1)
            /\ pc' = [pc EXCEPT ![w] = NextEntry(w, "progress", Len(data.progress), "render")]
    /\ UNCHANGED <<mapVars, tape, connVars, trendVars, data, seen, starts, uiVars>>

\* data['deadlines']['progress'][i] = ...
WriteDeadline(w) ==
    /\ pc[w].at = "store_progress"
    /\ data' = [data EXCEPT !.progress[pc[w].i] = held[w]]
    /\ pc' = [pc EXCEPT ![w] = NextEntry(w, "progress", Len(data.progress), "render")]
    /\ UNCHANGED <<mapVars, rngVars, connVars, trendVars, seen, starts, held, uiVars>>

InitRace ==
    /\ InitSheet
    /\ row = BaseRow
    /\ tape \in AllTapes
    /\ rng = GeneratorAfterSampleData
    /\ InitConnector("missing")
    /\ prevCall = NoCall
    /\ lastCall = NoCall
    /\ InitData

\* the whole callback of thread w, started by a tick or a click, runs between
\* two steps of the other threads
RefreshUninterrupted(w) ==
    /\ pc[w] = Idle
    /\ starts < MaxRefreshStarts
    /\ starts' = starts + 1
    /\ data' = UpdateData(tape, rng, data)
    /\ rng' = UpdateDeadlines(tape, After(rng, Len(data.financial) + 1), data.progress, 1).g
    /\ seen' = [seen EXCEPT ![w] = data']
    /\ UNCHANGED <<mapVars, tape, connVars, trendVars, pc, held, uiVars>>

\* the thread whose refresh is followed statement by statement; the threads
\* are switched only when another one can run its whole callback
Stepper == "w1"

NextRace ==
    \/ \E n_intervals \in {0, 1}, refresh_clicks \in {0, 1} :
           StartUpdate(Stepper, n_intervals, refresh_clicks)
    \/ ReadFinancialEntry(Stepper)
    \/ WriteFinancialEntry(Stepper)
    \/ ReadRiskScore(Stepper)
    \/ WriteRiskScore(Stepper)
    \/ ReadDeadline(Stepper)
    \/ WriteDeadline(Stepper)
    \/ RenderCharts(Stepper)
    \/ \E w \in Workers \ {Stepper} : RefreshUninterrupted(w)

SpecRace == InitRace /\ [][NextRace]_vars

\* ------------------------------------------------- claims about the refreshed data
\* the risk score and every progress value are within 0..100
DataInRange ==
    /\ data.risk_score >= 0 /\ data.risk_score <= 10000
    /\ \A i \in DOMAIN data.progress : data.progress[i] >= 0 /\ data.progress[i] <= 10000
\* C29: after any sequence of refreshes, by timer ticks and by clicks in any
\* order, the risk score is within 0..100, every progress value is within
\* 0..100 and never decreases; a callback with no tick and no click leaves
\* `data` unchanged.
C29_RefreshKeepsBounds ==
    [][/\ DataInRange /\ DataInRange'
       /\ \A i \in DOMAIN data.progress : data'.progress[i] >= data.progress[i]
       /\ \A w \in Workers : StartUpdate(w, 0, 0) \/ RenderCharts(w) => data' = data]_vars

\* what holds when threads overlap: the ranges, and that a callback with no
\* tick and no click writes nothing
RefreshKeepsRanges ==
    [][/\ DataInRange /\ DataInRange'
       /\ \A w \in Workers : StartUpdate(w, 0, 0) \/ RenderCharts(w) => data' = data]_vars
\* a thread stores a progress value that is lower than the one it overwrites
StaleProgressStored ==
    \E w \in Workers :
        /\ pc[w].at = "store_progress"
        /\ held[w] < data.progress[pc[w].i]

====
